---- MODULE Spec2Model ----
(***************************************************************************)
(* hydromt/workflows/rivers.py: river_width and river_depth.               *)
(*                                                                         *)
(* A call draws its arguments from bounded sets.  river_width runs in three *)
(* steps (rasterize the streams, remove islands and spread, average the    *)
(* width), river_depth in one.  The state holds the arguments, the locals  *)
(* computed so far, the steps performed, the calls made on the flow        *)
(* network, the input fields read, and the result or the exception raised. *)
(*                                                                         *)
(* Numbers: a width is the fraction <<num, den>> exactly as line 60 forms  *)
(* it (den = rivlen, so den may be 0 or negative).  Depths, hc and         *)
(* min_rivdph are in hundredths (1.0 is 100), hp is in hundredths too.     *)
(***************************************************************************)
EXTENDS Integers, Sequences, FiniteSets, TLC

VARIABLES pc, call, steps, loc, result, error, flwcalls, reads

vars == <<pc, call, steps, loc, result, error, flwcalls, reads>>

\* ------------------------------------------------------------------ bounds
GridRows == 3
GridCols == 3
MaxSegs == 2
MaxLoc == 2

\* ------------------------------------------------------- program constants
NminDefault == 5
Sentinel == -9999
HcDefault == 27
HpDefault == 30
MinRivdphDefault == 100
ManningDefault == 3

\* ------------------------------------------------------------- arithmetic
Abs(x) == IF x < 0 THEN -x ELSE x

Max(x, y) == IF x >= y THEN x ELSE y

SetMin(S) == CHOOSE x \in S : \A y \in S : x <= y

SetMax(S) == CHOOSE x \in S : \A y \in S : x >= y

\* ----------------------------------------------------------------- rasters
\* A raster shape is [rows, cols]; a cell is <<r, c>>; a boolean raster is
\* the set of its true cells; a label raster is a function cell -> integer.
Cells(shape) == (1..shape.rows) \X (1..shape.cols)

Rect(r1, r2, c1, c2) == (r1..r2) \X (c1..c2)

OnBorder(shape, c) ==
    c[1] = 1 \/ c[1] = shape.rows \/ c[2] = 1 \/ c[2] = shape.cols

Adjacent4(c, d) == Abs(c[1] - d[1]) + Abs(c[2] - d[2]) = 1

Dist2(c, d) == (c[1] - d[1]) * (c[1] - d[1]) + (c[2] - d[2]) * (c[2] - d[2])

\* Neighbours of the cells of F inside the set S (4-connectivity).
Grow(S, F) == {c \in S : \E d \in F : Adjacent4(c, d)}

RECURSIVE Flood(_, _)
\* The cells of S connected to the seed cells `seen` through S.
Flood(S, seen) ==
    LET more == Grow(S, seen) \ seen
    IN  IF more = {} THEN seen ELSE Flood(S, seen \cup more)

\* scipy.ndimage.binary_fill_holes with its default structuring element: the
\* background is flooded from outside the border through 4-connected false
\* cells; every cell the flood does not reach is true in the output.
BinaryFillHolesDropsMask(shape, mask) ==
    LET bg == Cells(shape) \ mask
        outside == Flood(bg, {c \in bg : OnBorder(shape, c)})
    IN  (Cells(shape) \ outside) \ {c \in mask : \E d \in outside : Adjacent4(c, d)}

BinaryFillHoles(shape, mask) ==
    LET bg == Cells(shape) \ mask
        outside == Flood(bg, {c \in bg : OnBorder(shape, c)})
    IN  Cells(shape) \ outside

\* ---------------------------------------------------------------- segments
\* A segment geometry is a straight line through cell centres along one full
\* row or column of the grid, named by a line id k: row k for k <= rows,
\* column k - rows otherwise.
LineIds(shape) == 1..(shape.rows + shape.cols)

\* Whether the line k passes through the cell c.
OnLine(shape, k, c) ==
    IF k <= shape.rows THEN c[1] = k ELSE c[2] = k - shape.rows

LineCells(shape, k) == {c \in Cells(shape) : OnLine(shape, k, c)}

\* GeoSeries.length of the line in the raster's CRS (line 44).
GeomLength(shape, res, k) ==
    IF k <= shape.rows
    THEN (shape.cols - 1) * Abs(res[1])
    ELSE (shape.rows - 1) * Abs(res[2])

\* ------------------------------------------------------------- river_width
\* line 40
AssertProjectedStripped(da_rivmask) == TRUE

AssertProjected(da_rivmask) == da_rivmask.is_projected

\* lines 43-44: the rivlen column, computed from the geometry when absent.
GdfRivlen(gdf, da_rivmask) ==
    IF "rivlen" \notin gdf.cols
    THEN [i \in 1..gdf.n |-> GeomLength(da_rivmask.shape, da_rivmask.res, gdf.geom[i])]
    ELSE gdf.rivlen

\* line 46: np.arange(1, index.size + 1) overwrites any segid column.
AssignSegidKeepsColumn(gdf) ==
    IF "segid" \in gdf.cols THEN gdf.segid ELSE [i \in 1..gdf.n |-> i]

AssignSegid(gdf) == [i \in 1..gdf.n |-> i]

\* line 47: raster.rasterize(gdf_stream, "segid"): each cell under a geometry
\* takes that segment's segid, the last segment winning on overlap; 0 elsewhere.
Rasterize(shape, geom, segid) ==
    [c \in Cells(shape) |->
        LET over == {i \in 1..Len(geom) : OnLine(shape, geom[i], c)}
        IN  IF over = {} THEN 0 ELSE segid[SetMax(over)]]

\* line 54: spread2d(segid, da_mask): every mask-true cell that is still unset
\* takes the label of its nearest labelled cell (Euclidean distance in grid
\* coordinates); equidistant labels resolve by the collaborator's fixed rule
\* `tie`; all other cells keep what they hold.
Spread2d(shape, segid, da_mask, tie) ==
    LET src == {c \in Cells(shape) : segid[c] # 0}
    IN  [c \in Cells(shape) |->
            IF segid[c] # 0 \/ c \notin da_mask \/ src = {} THEN segid[c]
            ELSE LET dmin == SetMin({Dist2(c, s) : s \in src})
                     near == {segid[s] : s \in {x \in src : Dist2(c, x) = dmin}}
                 IN  IF tie = "min" THEN SetMin(near) ELSE SetMax(near)]

\* line 56
CellAreaSigned(res) == res[1] * res[2]

CellArea(res) == Abs(res[1] * res[2])

\* lines 57-59: ndimage.sum(da_rivmask, labels, index): per index value, the
\* sum of the boolean river mask over the cells carrying that label.
SegCountLabelled(rivmask, labels, index) ==
    [i \in 1..Len(index) |->
        Cardinality({c \in DOMAIN labels : labels[c] = index[i]})]

SegCount(rivmask, labels, index) ==
    [i \in 1..Len(index) |->
        Cardinality({c \in rivmask : labels[c] = index[i]})]

\* line 60
Rivwth(seg_count, cellarea, rivlen) ==
    [i \in 1..Len(seg_count) |-> <<seg_count[i] * cellarea, rivlen[i]>>]

\* line 61
ValidAtLeastNmin(rivlen, seg_count, nmin) ==
    [i \in 1..Len(seg_count) |-> rivlen[i] > 0 /\ seg_count[i] >= nmin]

Valid(rivlen, seg_count, nmin) ==
    [i \in 1..Len(seg_count) |-> rivlen[i] > 0 /\ seg_count[i] > nmin]

\* line 62
Where(valid, rivwth) ==
    [i \in 1..Len(valid) |-> IF valid[i] THEN rivwth[i] ELSE <<Sentinel, 1>>]

NoLocals ==
    [rivlen |-> <<>>, gdf_segid |-> <<>>, segid |-> <<>>, da_mask |-> {},
     segid_spread |-> <<>>, cellarea |-> 0, seg_count |-> <<>>,
     rivwth |-> <<>>, valid |-> <<>>]

NoResult == [kind |-> "none", values |-> <<>>, nodata |-> 0]

NoError == [type |-> "", msg |-> <<>>]

\* lines 40-49: the call enters with its arguments; the assertion, the
\* river length, the segment ids and the rasterized streams.
RasterizeStreams(a) ==
    /\ pc = "idle"
    /\ call' = [op |-> "river_width", a |-> a]
    /\ UNCHANGED <<result, flwcalls, reads>>
    /\ IF ~AssertProjected(a.da_rivmask)
       THEN /\ pc' = "raised"
            /\ error' = [type |-> "AssertionError", msg |-> <<>>]
            /\ UNCHANGED <<steps, loc>>
       ELSE LET gdf_segid == AssignSegid(a.gdf)
            IN  /\ pc' = "rasterized"
                /\ error' = NoError
                /\ steps' = (IF "rivlen" \notin a.gdf.cols
                             THEN <<"length">> ELSE <<>>) \o <<"rasterize">>
                /\ loc' = [loc EXCEPT
                       !.rivlen = GdfRivlen(a.gdf, a.da_rivmask),
                       !.gdf_segid = gdf_segid,
                       !.segid = Rasterize(a.da_rivmask.shape, a.gdf.geom,
                                           gdf_segid)]

\* lines 50-54: islands removed from a copy of the mask, and the nearest
\* segment found for every cell of it.
RemoveIslandsAndSpread ==
    /\ pc = "rasterized"
    /\ LET a == call.a
           da_mask == BinaryFillHoles(a.da_rivmask.shape, a.da_rivmask.cells)
       IN  loc' = [loc EXCEPT
               !.da_mask = da_mask,
               !.segid_spread = Spread2d(a.da_rivmask.shape, loc.segid,
                                         da_mask, a.tie)]
    /\ steps' = steps \o <<"fill_holes", "spread2d">>
    /\ pc' = "spread"
    /\ UNCHANGED <<call, result, error, flwcalls, reads>>

\* lines 55-62: the average width from the river mask area and the segment
\* length, and the array returned.
AverageWidth ==
    /\ pc = "spread"
    /\ LET a == call.a
           cellarea == CellArea(a.da_rivmask.res)
           seg_count == SegCount(a.da_rivmask.cells, loc.segid_spread,
                                 loc.gdf_segid)
           rivwth == Rivwth(seg_count, cellarea, loc.rivlen)
           valid == Valid(loc.rivlen, seg_count, a.nmin)
       IN  /\ loc' = [loc EXCEPT !.cellarea = cellarea,
                                 !.seg_count = seg_count,
                                 !.rivwth = rivwth, !.valid = valid]
           /\ result' = [kind |-> "ndarray", values |-> Where(valid, rivwth),
                         nodata |-> 0]
    /\ steps' = steps \o <<"aggregate", "where">>
    /\ pc' = "returned"
    /\ UNCHANGED <<call, error, flwcalls, reads>>

\* ------------------------------------------------------------- river_depth
FieldNames ==
    [qbankfull |-> "qbankfull", rivwth |-> "rivwth", rivzs |-> "rivzs",
     rivdst |-> "rivdst", rivslp |-> "rivslp"]

\* line 115
Methods == <<"powlaw", "manning", "gvf">>

RECURSIVE IntPow(_, _)
IntPow(b, n) == IF n = 0 THEN 1 ELSE b * IntPow(b, n - 1)

ISqrt(q) == CHOOSE r \in 0..q : r * r = q

\* q ** hp for hp in hundredths, on the pairs where it is an integer:
\* x ** 0 = 1 (0 ** 0 included), 0 ** hp = 0 and 1 ** hp = 1 for hp > 0,
\* and a perfect square to a multiple of one half.
PowExact(q, hp) ==
    hp >= 0 /\ q >= 0
    /\ (hp = 0 \/ q \in {0, 1} \/ (hp % 50 = 0 /\ \E r \in 0..q : r * r = q))

Pow(q, hp) ==
    IF hp = 0 THEN 1
    ELSE IF q \in {0, 1} THEN q
    ELSE IntPow(ISqrt(q), hp \div 50)

\* lines 118-119: np.maximum(hc * qbankfull ** hp, min_rivdph), in hundredths.
RivdphPowlawUnclamped(qbankfull, hc, hp, min_rivdph) ==
    [i \in 1..Len(qbankfull) |-> hc * Pow(qbankfull[i], hp)]

RivdphPowlaw(qbankfull, hc, hp, min_rivdph) ==
    [i \in 1..Len(qbankfull) |-> Max(hc * Pow(qbankfull[i], hp), min_rivdph)]

\* lines 116, 122, 135: the branch the method name selects.
BranchElsePowlaw(method) ==
    IF method = "powlaw" THEN "powlaw"
    ELSE IF method \in {"manning", "gvf"} THEN "flwdir"
    ELSE "powlaw"

Branch(method) ==
    IF method = "powlaw" THEN "powlaw"
    ELSE IF method \in {"manning", "gvf"} THEN "flwdir"
    ELSE "raise"

\* line 123
AssertFlwdirStripped(flwdir) == TRUE

AssertFlwdir(flwdir) == flwdir # "None"

\* lines 127-129: data[name].values if name in data else None.
Absent == [present |-> FALSE, values |-> <<>>]

OptionalFieldZero(data, name) ==
    IF name \in data.fields
    THEN [present |-> TRUE, values |-> data.values[name]]
    ELSE [present |-> TRUE, values |-> [i \in 1..data.n |-> 0]]

OptionalField(data, name) ==
    IF name \in data.fields
    THEN [present |-> TRUE, values |-> data.values[name]]
    ELSE Absent

\* lines 137-142: a Dataset input has the depths wrapped as a DataArray with
\* nodata -9999.0; any other input gets the array back as it is.
Wrap(data, rivdph) ==
    IF data.kind = "Dataset"
    THEN [kind |-> "DataArray", values |-> rivdph, nodata |-> Sentinel]
    ELSE [kind |-> "ndarray", values |-> rivdph, nodata |-> 0]

KwGet(kwargs, key, default) ==
    IF key \in DOMAIN kwargs THEN kwargs[key] ELSE default

\* Outcome of a call, [pc, error, result, flwcalls, reads].
Raise(type, msg, rd) ==
    [pc |-> "raised", error |-> [type |-> type, msg |-> msg],
     result |-> NoResult, flwcalls |-> <<>>, reads |-> rd]

\* lines 116-121
DepthPowlaw(a) ==
    IF FieldNames.qbankfull \notin a.data.fields
    THEN Raise("KeyError", <<FieldNames.qbankfull>>, <<>>)
    ELSE IF ~(DOMAIN a.kwargs \subseteq {"hc", "hp"})
    THEN Raise("TypeError", <<>>, <<FieldNames.qbankfull>>)
    ELSE [pc |-> "returned", error |-> NoError,
          result |-> Wrap(a.data,
              RivdphPowlaw(a.data.values.qbankfull,
                           KwGet(a.kwargs, "hc", HcDefault),
                           KwGet(a.kwargs, "hp", HpDefault),
                           a.min_rivdph)),
          flwcalls |-> <<>>, reads |-> <<FieldNames.qbankfull>>]

\* lines 122-134
DepthFlwdir(a) ==
    IF ~AssertFlwdir(a.flwdir)
    THEN Raise("AssertionError", <<>>, <<>>)
    ELSE IF a.flwdir = "None"
    THEN Raise("AttributeError", <<"river_depth">>, <<>>)
    ELSE IF FieldNames.qbankfull \notin a.data.fields
    THEN Raise("KeyError", <<FieldNames.qbankfull>>, <<>>)
    ELSE IF FieldNames.rivwth \notin a.data.fields
    THEN Raise("KeyError", <<FieldNames.rivwth>>, <<FieldNames.qbankfull>>)
    ELSE [pc |-> "returned", error |-> NoError,
          result |-> Wrap(a.data, a.flw_ret),
          flwcalls |-> <<[qbankfull |-> a.data.values.qbankfull,
                          rivwth |-> a.data.values.rivwth,
                          zs |-> OptionalField(a.data, FieldNames.rivzs),
                          rivdst |-> OptionalField(a.data, FieldNames.rivdst),
                          rivslp |-> OptionalField(a.data, FieldNames.rivslp),
                          manning |-> a.manning,
                          method |-> a.method,
                          min_rivdph |-> a.min_rivdph,
                          kwargs |-> a.kwargs]>>,
          reads |-> <<FieldNames.qbankfull, FieldNames.rivwth>>
                    \o SelectSeq(<<FieldNames.rivzs, FieldNames.rivdst,
                                   FieldNames.rivslp>>,
                                 LAMBDA f : f \in a.data.fields)]

\* lines 135-136: the message is the pieces of the f-string in order, the
\* list of methods formatted element by element.
DepthUnknown(a) ==
    Raise("ValueError",
          <<"Method unknown ", a.method, ", select from ">> \o Methods, <<>>)

DepthOutcome(a) ==
    CASE Branch(a.method) = "powlaw" -> DepthPowlaw(a)
      [] Branch(a.method) = "flwdir" -> DepthFlwdir(a)
      [] OTHER -> DepthUnknown(a)

RiverDepth(a) ==
    /\ pc = "idle"
    /\ call' = [op |-> "river_depth", a |-> a]
    /\ steps' = steps
    /\ loc' = loc
    /\ LET o == DepthOutcome(a)
       IN  /\ pc' = o.pc
           /\ error' = o.error
           /\ result' = o.result
           /\ flwcalls' = o.flwcalls
           /\ reads' = o.reads

\* ------------------------------------------------------------------ inputs
Grid == [rows |-> GridRows, cols |-> GridCols]

\* River masks: the whole grid, or the grid without one rectangle of dry
\* cells (an island when the rectangle is interior, a bank or a gap between
\* two channels when it reaches the border).
Masks(shape) ==
    {Cells(shape)} \cup
    {Cells(shape) \ Rect(r1, r2, c1, c2) :
        <<r1, r2, c1, c2>> \in
            {q \in (1..shape.rows) \X (1..shape.rows)
                   \X (1..shape.cols) \X (1..shape.cols) :
                q[1] <= q[2] /\ q[3] <= q[4]}}

\* The whole grid, or the grid with one dry cell.
MasksOneDry(shape) ==
    {Cells(shape)} \cup {Cells(shape) \ {c} : c \in Cells(shape)}

RECURSIVE SeqOfSet(_)
SeqOfSet(S) ==
    IF S = {} THEN <<>> ELSE <<SetMin(S)>> \o SeqOfSet(S \ {SetMin(S)})

\* Segment collections: up to MaxSegs distinct lines, in ascending line id.
GeomTables(lines) ==
    {SeqOfSet(S) : S \in {T \in SUBSET lines : Cardinality(T) <= MaxSegs}}

RivlenVals == <<0, 2, -1, 3>>

\* A GeoDataFrame of the geometries `geom` with the columns `cols`; its index
\* is the features' line ids, a rivlen column holds RivlenVals from offset p
\* on, a segid column holds the positions reversed.
Gdf(geom, cols, p) ==
    [n |-> Len(geom), index |-> geom, geom |-> geom, cols |-> cols,
     rivlen |-> IF "rivlen" \in cols
                THEN [i \in 1..Len(geom) |->
                        RivlenVals[((p + i - 1) % Len(RivlenVals)) + 1]]
                ELSE <<>>,
     segid |-> IF "segid" \in cols
               THEN [i \in 1..Len(geom) |-> Len(geom) + 1 - i]
               ELSE <<>>]

RivMask(shape, cells, res, projected) ==
    [shape |-> shape, cells |-> cells, res |-> res, is_projected |-> projected]

\* Every mask and every segment collection of the grid, under both tie rules.
GeometryCases ==
    {[da_rivmask |-> RivMask(Grid, m, <<1, -1>>, TRUE),
      gdf |-> Gdf(g, {}, 0), nmin |-> NminDefault, tie |-> t] :
        m \in Masks(Grid), g \in GeomTables(LineIds(Grid)), t \in {"min", "max"}}

\* Every column set, length column, nmin, resolution and projection, over
\* the masks with at most one dry cell and the row segments.
PolicyCases ==
    {[da_rivmask |-> RivMask(Grid, m, r, pr),
      gdf |-> Gdf(g, cs, p), nmin |-> n, tie |-> "min"] :
        m \in MasksOneDry(Grid), g \in GeomTables(1..Grid.rows),
        cs \in SUBSET {"rivlen", "segid"}, p \in 0..(Len(RivlenVals) - 1),
        n \in {0, 2, NminDefault}, r \in {<<1, -1>>, <<2, 2>>},
        pr \in BOOLEAN}

\* Two parallel channels along rows 1 and 4 of a 4 x 6 grid around one
\* 2 x 2 island: 20 river cells, 10 nearest to each segment, 4 island cells.
Braided ==
    [shape |-> [rows |-> 4, cols |-> 6], island |-> Rect(2, 3, 3, 4),
     geom |-> <<1, 4>>, rivlen |-> <<100, 100>>]

BraidedCases ==
    {[da_rivmask |-> RivMask(Braided.shape,
                             Cells(Braided.shape) \ Braided.island, r, TRUE),
      gdf |-> [Gdf(Braided.geom, cs \cup {"rivlen"}, 0)
                  EXCEPT !.rivlen = Braided.rivlen],
      nmin |-> NminDefault, tie |-> t] :
        r \in {<<1, -1>>, <<1, 1>>, <<-1, 1>>}, cs \in SUBSET {"segid"},
        t \in {"min", "max"}}

WidthArgs == GeometryCases \cup PolicyCases \cup BraidedCases

QVals == {0, 1, 4}

QVectors == UNION {[1..n -> QVals] : n \in 1..MaxLoc}

\* Extra options holding hc and hp when given (a sequence of 0 or 1 values).
Kw(hc, hp) ==
    [k \in (IF hc = <<>> THEN {} ELSE {"hc"})
           \cup (IF hp = <<>> THEN {} ELSE {"hp"}) |->
        IF k = "hc" THEN hc[1] ELSE hp[1]]

KwPowlaw ==
    {Kw(hc, hp) : hc \in {<<>>, <<200>>, <<-100>>},
                  hp \in {<<>>, <<0>>, <<50>>, <<100>>}}
    \cup {[k \in {"min_rivslp"} |-> 1]}

KwFlwdir == {Kw(<<>>, <<>>), [k \in {"min_rivslp"} |-> 1]}

\* A Dataset or DataFrame holding the fields `fields`.
Data(kind, fields, q) ==
    [kind |-> kind, fields |-> fields, n |-> Len(q),
     values |-> [qbankfull |-> q,
                 rivwth |-> [i \in 1..Len(q) |-> 30 + i],
                 rivzs |-> [i \in 1..Len(q) |-> 7 * i],
                 rivdst |-> [i \in 1..Len(q) |-> i - 1],
                 rivslp |-> [i \in 1..Len(q) |-> 0]]]

HpOf(kwargs) == KwGet(kwargs, "hp", HpDefault)

PowlawCases ==
    {a \in
        [data : {Data(k, f, q) : k \in {"Dataset", "DataFrame"},
                                 f \in {{}, {"qbankfull"}, {"qbankfull", "rivwth"}},
                                 q \in QVectors},
         method : {"powlaw"}, flwdir : {"None", "Flwdir"},
         min_rivdph : {-100, 0, MinRivdphDefault}, manning : {ManningDefault},
         kwargs : KwPowlaw, flw_ret : {<<>>}] :
        \A i \in 1..a.data.n :
            PowExact(a.data.values.qbankfull[i], HpOf(a.kwargs))}

FlwFields ==
    {req \cup opt : req \in {{"qbankfull", "rivwth"}, {"qbankfull"}, {"rivwth"}},
                    opt \in SUBSET {"rivzs", "rivdst", "rivslp"}}

\* The collaborator's answers: depths below and above min_rivdph.
FlwReturns == {[i \in 1..MaxLoc |-> 50 * i - 50], [i \in 1..MaxLoc |-> 250]}

FlwdirCases ==
    [data : {Data(k, f, [i \in 1..MaxLoc |-> i * i]) :
                k \in {"Dataset", "DataFrame"}, f \in FlwFields},
     method : {"manning", "gvf"}, flwdir : {"None", "Flwdir"},
     min_rivdph : {0, MinRivdphDefault}, manning : {ManningDefault},
     kwargs : KwFlwdir, flw_ret : FlwReturns]

UnknownCases ==
    [data : {Data(k, f, <<1>>) : k \in {"Dataset", "DataFrame"},
                                 f \in {{}, {"qbankfull", "rivwth"}}},
     method : {"bogus", "", "Manning"}, flwdir : {"None", "Flwdir"},
     min_rivdph : {MinRivdphDefault}, manning : {ManningDefault},
     kwargs : KwFlwdir, flw_ret : {<<>>}]

DepthArgs == PowlawCases \cup FlwdirCases \cup UnknownCases

\* ----------------------------------------------------------- specification
Init ==
    /\ pc = "idle"
    /\ call = [op |-> "none"]
    /\ steps = <<>>
    /\ loc = NoLocals
    /\ result = NoResult
    /\ error = NoError
    /\ flwcalls = <<>>
    /\ reads = <<>>

\* A call starts from the idle caller; the state after it returned or raised
\* is final.
Next ==
    \/ pc = "idle" /\ \E a \in WidthArgs : RasterizeStreams(a)
    \/ RemoveIslandsAndSpread
    \/ AverageWidth
    \/ pc = "idle" /\ \E a \in DepthArgs : RiverDepth(a)

Spec == Init /\ [][Next]_vars

\* ---------------------------------------------------------------- claims
WidthCall == call.op = "river_width"

DepthCall == call.op = "river_depth"

WidthReturned == WidthCall /\ pc = "returned"

DepthReturned == DepthCall /\ pc = "returned"

\* A returned width that is the number -9999.
IsSentinel(v) == v[2] # 0 /\ v[1] = Sentinel * v[2]

RECURSIVE SeqSum(_)
SeqSum(q) == IF Len(q) = 0 THEN 0 ELSE q[1] + SeqSum(Tail(q))

Labelled(labels) == {c \in DOMAIN labels : labels[c] # 0}

\* The river-mask cells whose propagated label is the i-th segment's segid.
CountedCells(i) ==
    {c \in call.a.da_rivmask.cells : loc.segid_spread[c] = loc.gdf_segid[i]}

C2_AlignedToInput ==
    WidthReturned =>
        LET gdf == call.a.gdf
            shape == call.a.da_rivmask.shape
        IN  /\ Len(result.values) = gdf.n
            /\ \A i \in 1..gdf.n :
                /\ loc.gdf_segid[i] = i
                /\ \A c \in LineCells(shape, gdf.geom[i]) :
                       (\A j \in (i + 1)..gdf.n : ~OnLine(shape, gdf.geom[j], c))
                           => loc.segid[c] = i
                /\ LET n == Cardinality({c \in call.a.da_rivmask.cells :
                                            loc.segid_spread[c] = i})
                   IN  result.values[i] =
                           IF loc.rivlen[i] > 0 /\ n > call.a.nmin
                           THEN <<n * loc.cellarea, loc.rivlen[i]>>
                           ELSE <<Sentinel, 1>>

\* Two segments whose index is not 1..N and whose incoming segid column is
\* reversed get different values, each at its own position.
C2_Witness ==
    /\ WidthReturned
    /\ call.a.gdf.n = 2
    /\ "segid" \in call.a.gdf.cols
    /\ call.a.gdf.segid = <<2, 1>>
    /\ call.a.gdf.index # <<1, 2>>
    /\ ~IsSentinel(result.values[1])
    /\ IsSentinel(result.values[2])

\* C3: a call with a mask that is not projected raises at the assertion
\* (AssertionError, the InvalidProjectionError of the specification) with no
\* step performed, no local computed and no result.
C3_NotProjectedFails ==
    (WidthCall /\ ~call.a.da_rivmask.is_projected) =>
        /\ pc = "raised"
        /\ error.type = "AssertionError"
        /\ steps = <<>>
        /\ loc = NoLocals
        /\ result = NoResult

C3_Witness ==
    /\ WidthCall
    /\ ~call.a.da_rivmask.is_projected
    /\ call.a.gdf.n = 2
    /\ pc = "raised"

\* C4: a method other than powlaw, manning, gvf raises ValueError (the
\* UnsupportedMethodError of the specification) whose message holds the
\* method given and the three legal methods, with no call on the flow
\* network and no result, for every flwdir and every kind of data.
C4_UnknownMethodFails ==
    (DepthCall /\ call.a.method \notin {"powlaw", "manning", "gvf"}) =>
        /\ pc = "raised"
        /\ error.type = "ValueError"
        /\ Len(error.msg) = 6
        /\ error.msg[2] = call.a.method
        /\ SubSeq(error.msg, 4, 6) = <<"powlaw", "manning", "gvf">>
        /\ flwcalls = <<>>
        /\ reads = <<>>
        /\ result = NoResult

C4_Witness ==
    /\ DepthCall
    /\ call.a.method = "bogus"
    /\ call.a.flwdir = "Flwdir"
    /\ call.a.data.kind = "Dataset"
    /\ pc = "raised"
    /\ error.type = "ValueError"

\* C5: manning or gvf without a flow network raises at the assertion
\* (AssertionError, the MissingDependencyError of the specification) before
\* any field of the input is read and with no result; powlaw never calls a
\* flow network, and ends the same way with one as without.
C5_MissingFlwdirFails ==
    DepthCall =>
        /\ (call.a.method \in {"manning", "gvf"} /\ call.a.flwdir = "None") =>
               /\ pc = "raised"
               /\ error.type = "AssertionError"
               /\ reads = <<>>
               /\ flwcalls = <<>>
               /\ result = NoResult
        /\ call.a.method = "powlaw" =>
               /\ flwcalls = <<>>
               /\ error.type \notin {"AssertionError", "AttributeError"}
               /\ \A f \in {"None", "Flwdir"} :
                      LET o == DepthOutcome([call.a EXCEPT !.flwdir = f])
                      IN  o.pc = pc /\ o.error = error /\ o.result = result

C5_Witness ==
    /\ DepthCall
    /\ call.a.method = "manning"
    /\ call.a.flwdir = "None"
    /\ {"qbankfull", "rivwth", "rivslp"} \subseteq call.a.data.fields
    /\ pc = "raised"
    /\ error.type = "AssertionError"

PowlawReturned == DepthReturned /\ call.a.method = "powlaw"

AllZero(q) == \A i \in 1..Len(q) : q[i] = 0

\* C6 as stated: a powlaw call with qbankfull = 0 everywhere returns exactly
\* min_rivdph for every element, for every min_rivdph, hc and hp.
C6_Original ==
    (PowlawReturned /\ AllZero(call.a.data.values.qbankfull)) =>
        \A i \in 1..call.a.data.n : result.values[i] = call.a.min_rivdph

\* C6 amended: every element of a powlaw result is the larger of
\* hc * qbankfull^hp and min_rivdph, so never below min_rivdph; where
\* qbankfull = 0 it is exactly min_rivdph when hp > 0 and min_rivdph >= 0,
\* and the larger of hc and min_rivdph when hp = 0.
C6_PowlawClamped ==
    PowlawReturned =>
        LET hc == KwGet(call.a.kwargs, "hc", HcDefault)
            hp == KwGet(call.a.kwargs, "hp", HpDefault)
            q == call.a.data.values.qbankfull
        IN  /\ Len(result.values) = Len(q)
            /\ \A i \in 1..Len(q) :
                LET v == result.values[i]
                    raw == hc * Pow(q[i], hp)
                IN  /\ v >= call.a.min_rivdph
                    /\ v >= raw
                    /\ v \in {raw, call.a.min_rivdph}
                    /\ (q[i] = 0 /\ hp > 0 /\ call.a.min_rivdph >= 0)
                           => v = call.a.min_rivdph
                    /\ (q[i] = 0 /\ hp = 0)
                           => v = (IF hc >= call.a.min_rivdph
                                   THEN hc ELSE call.a.min_rivdph)

\* qbankfull = 0 at two locations, hc and hp passed as extra options with
\* hp > 0: every element is min_rivdph.
C6_Witness ==
    /\ PowlawReturned
    /\ call.a.data.n >= 2
    /\ AllZero(call.a.data.values.qbankfull)
    /\ DOMAIN call.a.kwargs = {"hc", "hp"}
    /\ call.a.kwargs["hp"] > 0
    /\ call.a.min_rivdph = 0
    /\ \A i \in 1..call.a.data.n : result.values[i] = call.a.min_rivdph

FlwdirReturned == DepthReturned /\ call.a.method \in {"manning", "gvf"}

\* The argument the flow network got for the optional field `name`.
PassedAs(arg, name) ==
    IF name \in call.a.data.fields
    THEN arg = [present |-> TRUE, values |-> call.a.data.values[name]]
    ELSE arg = Absent

\* C7: manning and gvf with a flow network and the required fields call its
\* river_depth exactly once with the caller's method, manning, min_rivdph and
\* extra options; zs, rivdst and rivslp are None exactly when their field is
\* not in the input and the input's values otherwise; what the flow network
\* returns is returned unchanged.
C7_DelegatesUnchanged ==
    /\ (DepthCall /\ call.a.method \in {"manning", "gvf"}
          /\ call.a.flwdir # "None"
          /\ {"qbankfull", "rivwth"} \subseteq call.a.data.fields)
           => pc = "returned"
    /\ FlwdirReturned =>
        /\ call.a.flwdir # "None"
        /\ Len(flwcalls) = 1
        /\ flwcalls[1].method = call.a.method
        /\ flwcalls[1].manning = call.a.manning
        /\ flwcalls[1].min_rivdph = call.a.min_rivdph
        /\ flwcalls[1].kwargs = call.a.kwargs
        /\ flwcalls[1].qbankfull = call.a.data.values.qbankfull
        /\ flwcalls[1].rivwth = call.a.data.values.rivwth
        /\ PassedAs(flwcalls[1].zs, "rivzs")
        /\ PassedAs(flwcalls[1].rivdst, "rivdst")
        /\ PassedAs(flwcalls[1].rivslp, "rivslp")
        /\ result.values = call.a.flw_ret

\* A gvf call on a Dataset without rivzs and with rivslp, whose flow network
\* answers depths below min_rivdph: they come back as they are.
C7_Witness ==
    /\ FlwdirReturned
    /\ call.a.method = "gvf"
    /\ call.a.data.kind = "Dataset"
    /\ "rivzs" \notin call.a.data.fields
    /\ "rivslp" \in call.a.data.fields
    /\ flwcalls[1].zs = Absent
    /\ flwcalls[1].rivslp.present
    /\ \E i \in 1..Len(result.values) : result.values[i] < call.a.min_rivdph

\* C8: seg_count of a segment is the number of cells true in the original
\* river mask whose propagated label is the segment's segid; cells true only
\* in the filled mask and labelled cells false in the original mask count for
\* no segment; the counts sum to the labelled river-mask cells, at most the
\* number of river-mask cells.
C8_CountsOriginalMask ==
    WidthReturned =>
        LET cells == call.a.da_rivmask.cells
        IN  /\ \A i \in 1..call.a.gdf.n :
                   loc.seg_count[i] = Cardinality(CountedCells(i))
            /\ \A i, j \in 1..call.a.gdf.n :
                   i # j => CountedCells(i) \cap CountedCells(j) = {}
            /\ \A i \in 1..call.a.gdf.n :
                   CountedCells(i) \cap (Labelled(loc.segid_spread) \ cells) = {}
            /\ SeqSum(loc.seg_count)
                   = Cardinality(Labelled(loc.segid_spread) \cap cells)
            /\ SeqSum(loc.seg_count) <= Cardinality(cells)

\* Two segments around a filled island: the island cell got its label by
\* spreading and is counted for neither segment, so the counts add up to
\* the river-mask cells, fewer than the labelled cells.
C8_Witness ==
    /\ WidthReturned
    /\ call.a.gdf.n = 2
    /\ \E c \in loc.da_mask \ call.a.da_rivmask.cells :
           loc.segid[c] = 0 /\ loc.segid_spread[c] # 0
    /\ SeqSum(loc.seg_count) = Cardinality(call.a.da_rivmask.cells)
    /\ SeqSum(loc.seg_count) < Cardinality(Labelled(loc.segid_spread))

\* The labels and the counts of the same call had the holes not been filled.
SpreadUnfilled ==
    Spread2d(call.a.da_rivmask.shape, loc.segid, call.a.da_rivmask.cells,
             call.a.tie)

BraidedReturned == WidthReturned /\ call.a.da_rivmask.shape = Braided.shape

\* C10 as stated: in the braided scenario the two counted-cell totals add up
\* to 10 + 10 + 4 = 24, each width is its count over 100, neither is -9999.
C10_Original ==
    BraidedReturned =>
        /\ loc.seg_count[1] + loc.seg_count[2] = 24
        /\ \A i \in 1..2 : result.values[i] = <<loc.seg_count[i], 100>>

\* C10 amended: in the braided scenario the 24 cells of the filled mask are
\* labelled 12 and 12 by nearest distance, the 4 island cells are not
\* counted, so the counts are 10 and 10 and add up to 20, each width is its
\* count over 100 and neither is -9999.
C10_BraidedCounts ==
    BraidedReturned =>
        /\ Cardinality(loc.da_mask) = 24
        /\ \A i \in 1..2 :
               Cardinality({c \in loc.da_mask : loc.segid_spread[c] = i}) = 12
        /\ loc.seg_count = <<10, 10>>
        /\ loc.seg_count[1] + loc.seg_count[2] = 20
        /\ \A i \in 1..2 : /\ result.values[i] = <<loc.seg_count[i], 100>>
                           /\ ~IsSentinel(result.values[i])

C10_Witness ==
    /\ BraidedReturned
    /\ call.a.gdf.rivlen = <<100, 100>>
    /\ call.a.nmin = NminDefault
    /\ Cardinality(call.a.da_rivmask.cells) = 20
    /\ Cardinality(loc.da_mask \ call.a.da_rivmask.cells) = 4
    /\ result.values = <<<<10, 100>>, <<10, 100>>>>

====
